---- MODULE Spec2Model ----
(***************************************************************************)
(* Model of the pre-buffered playback core of src/index.js: the            *)
(* interactionCreate handler of "/music play", createBufferedStream, and   *)
(* playSong with its one-shot Idle / error listeners, and the handler's     *)
(* treatment of the skip and stop subcommands.                             *)
(*                                                                         *)
(* Granularity: one action per event-loop callback.  A callback runs to    *)
(* completion together with the promise continuations (microtasks) it      *)
(* releases, so the timer callback `check` that resolves the buffering     *)
(* wait also runs the rest of the play handler (lines 197-229).            *)
(* Callbacks queued with setImmediate run back to back in one check phase: *)
(* while that queue drains no other callback runs.                         *)
(***************************************************************************)
EXTENDS Integers, Sequences, FiniteSets, TLC

\* Number of "/music play" interactions issued (request r resolves to song r).
MaxRequests == 3
\* bufferLimit (line 91) counted in chunk units instead of bytes.
BufferLimit == 2
\* Largest chunk.length of one ffmpeg.stdout "data" event, in the same unit.
MaxChunk == 2

GuildId == "g"
Requests == 1 .. MaxRequests
NoSong == 0
NoCommand == [ sub |-> "none", outcome |-> "none" ]

VARIABLES
  queues,      \* the Map guildId -> server (line 30)
  immediates,  \* guild ids of the pending setImmediate(() => playSong(guildId))
  draining,    \* TRUE while the check phase runs the queued immediates
  awaiting,    \* songs whose pipeline a suspended playSong awaits (line 133)
  voice,       \* voice connections joined and not yet destroyed
  pc,          \* position of each play interaction in the handler
  reply,       \* what each interaction was answered
  buffer,      \* song.buffer is attached (lines 134, 197)
  ytdlp,       \* state of the downloader process of each pipeline
  ffmpeg,      \* state of the transcoder process of each pipeline
  buffered,    \* the byte counter of each pipeline (line 90)
  promise,     \* the buffering wait of each pipeline (line 103)
  timer,       \* the setTimeout(check, 10) of each pipeline is armed
  enqueued,    \* history: songs in the order they entered a queue
  started,     \* history: songs in the order player.play started them
  removed,     \* history: songs in the order songs.shift() removed them
  attempts,    \* history: runs of the catch branch of playSong (line 135)
  failures,    \* history: a player error or a throw of join / play happened
  command,     \* the last skip / stop interaction and how its handler ended
  rearmed      \* history: pipelines whose check re-armed its timer after the
               \* wait had been settled

vars == << queues, immediates, draining, awaiting, voice, pc, reply, buffer,
           ytdlp, ffmpeg, buffered, promise, timer,
           enqueued, started, removed, attempts, failures, command,
           rearmed >>

pipeVars == << ytdlp, ffmpeg, buffered, promise, timer >>
histVars == << enqueued, started, removed, attempts, failures >>
otherVars == << command, rearmed >>

----------------------------------------------------------------------------
\* Values

\* queues.has(guildId)
HasSession(q, g) == g \in DOMAIN q

\* queues.delete(guildId)
MapDelete(q, g) == [ h \in DOMAIN q \ {g} |-> q[h] ]

\* queues.set(guildId, server)
MapSet(q, g, server) == [ h \in DOMAIN q \cup {g} |-> IF h = g THEN server ELSE q[h] ]

\* server = { ..., songs: [] ... }: the first song is left out of the queue
NewServerNoSong(song) ==
  [ connection  |-> TRUE,
    songs       |-> << >>,
    playProcess |-> NoSong,
    status      |-> "idle",
    resource    |-> NoSong,
    idle        |-> 0,
    error       |-> 0 ]

\* server = { connection, player, songs: [song], playProcess: null } with a
\* fresh createAudioPlayer(): Idle, no listeners.
NewServer(song) ==
  [ connection  |-> TRUE,
    songs       |-> << song >>,
    playProcess |-> NoSong,
    status      |-> "idle",
    resource    |-> NoSong,
    idle        |-> 0,
    error       |-> 0 ]

\* server.songs.push(song) prepending instead of appending
PushFront(songs, song) == << song >> \o songs

\* server.songs.push(song)
Push(songs, song) == Append(songs, song)

\* shift() that drops the tail instead of the head
ShiftLast(songs) == IF songs = << >> THEN << >> ELSE SubSeq(songs, 1, Len(songs) - 1)

\* shift() left out
NoShift(songs) == songs

\* server.songs.shift(): removes the head; a no-op on an empty array
Shift(songs) == IF songs = << >> THEN << >> ELSE Tail(songs)

RECURSIVE ShiftN(_, _)
\* n runs of songs.shift(), one per listener that fires
ShiftN(songs, n) == IF n = 0 THEN songs ELSE ShiftN(Shift(songs), n - 1)

\* the songs n runs of songs.shift() return (undefined results left out)
Shifted(songs, n) == SubSeq(songs, 1, IF n < Len(songs) THEN n ELSE Len(songs))

\* const song = server.songs[1] instead of [0]
SecondSong(songs) == IF Len(songs) > 1 THEN songs[2] ELSE songs[1]

\* const song = server.songs[0]
HeadSong(songs) == songs[1]

\* proc.kill(): a running child is terminated; otherwise nothing changes
Kill(state) == IF state = "running" THEN "killed" ELSE state

\* buffered >= bufferLimit - 1: the wait is over one unit early
ReachedEarly(n) == n >= BufferLimit - 1

\* buffered >= bufferLimit
Reached(n) == n >= BufferLimit

\* buffered += chunk.length, followed up to bufferLimit
Count(n, chunk) == IF n + chunk > BufferLimit THEN BufferLimit ELSE n + chunk

RECURSIVE Repeat(_, _)
\* n copies of x, as a sequence
Repeat(x, n) == IF n = 0 THEN << >> ELSE << x >> \o Repeat(x, n - 1)

\* f with f[r] = v when r is a song, f itself when r is NoSong
With(f, r, v) == IF r = NoSong THEN f ELSE [ f EXCEPT ![r] = v ]

----------------------------------------------------------------------------
\* playSong (lines 120-159)

\* lines 141-158 without line 143: server.playProcess is never bound
StartPlaybackNoBind(server, song) ==
  [ server EXCEPT !.status = "playing", !.resource = song,
                  !.idle = @ + 1, !.error = @ + 1 ]

\* lines 141-158: player.play(resource), bind the song's process pair, arm
\* one once(Idle) and one once("error") listener
StartPlayback(server, song) ==
  [ server EXCEPT !.status = "playing", !.resource = song,
                  !.playProcess = song,
                  !.idle = @ + 1, !.error = @ + 1 ]

\* playSong whose empty-queue branch leaves the session in the map
PlaySongKeepsSession(q, buf, g, playOk) ==
  IF ~HasSession(q, g) \/ q[g].songs = << >>
  THEN [ q |-> q, destroyed |-> FALSE, played |-> NoSong, threw |-> FALSE,
         awaits |-> NoSong ]
  ELSE IF ~buf[HeadSong(q[g].songs)]
  THEN [ q |-> q, destroyed |-> FALSE, played |-> NoSong, threw |-> FALSE,
         awaits |-> HeadSong(q[g].songs) ]
  ELSE IF ~playOk
  THEN [ q |-> q, destroyed |-> FALSE, played |-> NoSong, threw |-> TRUE,
         awaits |-> NoSong ]
  ELSE [ q |-> MapSet(q, g, StartPlayback(q[g], HeadSong(q[g].songs))),
         destroyed |-> FALSE, played |-> HeadSong(q[g].songs), threw |-> FALSE,
         awaits |-> NoSong ]

\* playSong(guildId) from its start to its return or to its await at line
\* 133.  The result: the new map, whether the voice connection was
\* destroyed, the song handed to player.play, whether playSong threw, and
\* the song whose pipeline it now awaits.  playOk: createAudioResource and
\* player.play (lines 141-142, outside the try) return normally.
PlaySong(q, buf, g, playOk) ==
  IF ~HasSession(q, g) \/ q[g].songs = << >>
  THEN \* lines 122-126: server?.connection?.destroy(); queues.delete(guildId)
       [ q |-> MapDelete(q, g),
         destroyed |-> HasSession(q, g) /\ q[g].connection,
         played |-> NoSong, threw |-> FALSE, awaits |-> NoSong ]
  ELSE IF ~buf[HeadSong(q[g].songs)]
  THEN \* line 133: no song.buffer, await createBufferedStream(song.url, 5)
       [ q |-> q, destroyed |-> FALSE, played |-> NoSong, threw |-> FALSE,
         awaits |-> HeadSong(q[g].songs) ]
  ELSE IF ~playOk
  THEN [ q |-> q, destroyed |-> FALSE, played |-> NoSong, threw |-> TRUE,
         awaits |-> NoSong ]
  ELSE [ q |-> MapSet(q, g, StartPlayback(q[g], HeadSong(q[g].songs))),
         destroyed |-> FALSE, played |-> HeadSong(q[g].songs), threw |-> FALSE,
         awaits |-> NoSong ]

\* The body shared by the Idle listener (lines 145-150) and the error listener
\* (lines 152-158), run by n listeners in a row: songs.shift() each.
Listeners(server, n) == [ server EXCEPT !.songs = ShiftN(@, n) ]

\* the processes after the listeners' kill() calls on server.playProcess
KillPlayProcess(procs, server, n) ==
  IF n = 0 \/ server.playProcess = NoSong THEN procs
  ELSE [ procs EXCEPT ![server.playProcess] = Kill(@) ]

----------------------------------------------------------------------------
Init ==
  /\ queues = << >>
  /\ immediates = << >>
  /\ draining = FALSE
  /\ awaiting = {}
  /\ voice = 0
  /\ pc = [ r \in Requests |-> "new" ]
  /\ reply = [ r \in Requests |-> "none" ]
  /\ buffer = [ r \in Requests |-> FALSE ]
  /\ ytdlp = [ r \in Requests |-> "none" ]
  /\ ffmpeg = [ r \in Requests |-> "none" ]
  /\ buffered = [ r \in Requests |-> 0 ]
  /\ promise = [ r \in Requests |-> "none" ]
  /\ timer = [ r \in Requests |-> FALSE ]
  /\ enqueued = << >>
  /\ started = << >>
  /\ removed = << >>
  /\ attempts = 0
  /\ failures = FALSE
  /\ command = NoCommand
  /\ rearmed = {}

\* createBufferedStream up to its await (lines 68-112) for song r, r a song:
\* both children are spawned, the counter is 0, check() has run once and
\* armed its timer.  base: the pipelines before the call.
Spawn(base, r) ==
  /\ ytdlp' = With(base[1], r, "running")
  /\ ffmpeg' = With(base[2], r, "running")
  /\ buffered' = With(base[3], r, 0)
  /\ promise' = With(base[4], r, "pending")
  /\ timer' = With(base[5], r, ~Reached(0))

CreateBufferedStream(r) == Spawn(pipeVars, r)

\* interactionCreate for "/music play" from its start to the await inside
\* createBufferedStream (lines 164-197).  The awaits of deferReply and
\* ytSearch on the way read and write nothing but this interaction.
Interaction(r) ==
  /\ ~draining
  /\ pc[r] = "new"
  /\ \A earlier \in 1 .. (r - 1) : pc[earlier] # "new"
  /\ \E inVoice, isUrl \in BOOLEAN, result \in { "found", "none", "throws" } :
       IF ~inVoice
       THEN \* line 176
            /\ pc' = [ pc EXCEPT ![r] = "done" ]
            /\ reply' = [ reply EXCEPT ![r] = "not_in_voice" ]
            /\ UNCHANGED pipeVars
       ELSE IF result = "throws"
       THEN \* lines 199-202
            /\ pc' = [ pc EXCEPT ![r] = "done" ]
            /\ reply' = [ reply EXCEPT ![r] = "failed_resolve" ]
            /\ UNCHANGED pipeVars
       ELSE IF result = "none" /\ ~isUrl
       THEN \* line 191
            /\ pc' = [ pc EXCEPT ![r] = "done" ]
            /\ reply' = [ reply EXCEPT ![r] = "no_results" ]
            /\ UNCHANGED pipeVars
       ELSE \* line 197
            /\ pc' = [ pc EXCEPT ![r] = "buffering" ]
            /\ CreateBufferedStream(r)
            /\ UNCHANGED reply
  /\ UNCHANGED << queues, immediates, draining, awaiting, voice, buffer, histVars >>
  /\ UNCHANGED otherVars

\* ffmpeg.stdout "data" (lines 93-96).  The counter is only ever compared with
\* the limit, so it is followed up to the limit and no further.
FfmpegData(r) ==
  /\ ~draining
  /\ ytdlp[r] = "running" /\ ffmpeg[r] = "running"
  /\ ~Reached(buffered[r])
  /\ \E chunk \in 1 .. MaxChunk :
       buffered' = [ buffered EXCEPT ![r] = Count(@, chunk) ]
  /\ UNCHANGED << queues, immediates, draining, awaiting, voice, pc, reply, buffer,
                  ytdlp, ffmpeg, promise, timer, histVars >>
  /\ UNCHANGED otherVars

\* ffmpeg.stdout "end" (lines 98-100): the media is exhausted, both children
\* have exited; the handler only ends the pass-through stream.
FfmpegEnd(r) ==
  /\ ~draining
  /\ ffmpeg[r] = "running"
  /\ ffmpeg' = [ ffmpeg EXCEPT ![r] = "exited" ]
  /\ ytdlp' = [ ytdlp EXCEPT ![r] = IF @ = "running" THEN "exited" ELSE @ ]
  /\ UNCHANGED << queues, immediates, draining, awaiting, voice, pc, reply, buffer,
                  buffered, promise, timer, histVars >>
  /\ UNCHANGED otherVars

\* The catch branch of playSong (lines 135-139) for the awaited song r:
\* server.songs.shift(), then playSong(guildId) again.  base: the pipelines
\* after the failure.
PlaySongCatch(r, base, playOk) ==
  LET songs == queues[GuildId].songs
      res == PlaySong([ queues EXCEPT ![GuildId].songs = Shift(@) ], buffer,
                      GuildId, playOk)
  IN /\ queues' = res.q
     /\ voice' = IF res.destroyed THEN voice - 1 ELSE voice
     /\ started' = IF res.played = NoSong THEN started ELSE Append(started, res.played)
     /\ failures' = (failures \/ res.threw)
     /\ removed' = removed \o Shifted(songs, 1)
     /\ attempts' = attempts + 1
     /\ awaiting' = (awaiting \ {r}) \cup ({res.awaits} \ {NoSong})
     /\ Spawn(base, res.awaits)
     /\ UNCHANGED << pc, reply, enqueued >>

\* A child emits "error" with no listener wired to reject (lines 110-111
\* left out): the wait does not see it
ProcErrorUnheard(r) ==
  /\ ~draining
  /\ promise[r] = "pending"
  /\ buffered[r] = 0
  /\ \E which \in { "ytdlp", "ffmpeg" } :
       /\ IF which = "ytdlp" THEN ytdlp[r] = "running" ELSE ffmpeg[r] = "running"
       /\ ytdlp' = [ ytdlp EXCEPT ![r] = IF which = "ytdlp" THEN "error" ELSE @ ]
       /\ ffmpeg' = [ ffmpeg EXCEPT ![r] = IF which = "ffmpeg" THEN "error" ELSE @ ]
  /\ UNCHANGED << queues, immediates, draining, awaiting, voice, pc, reply, buffer,
                  buffered, promise, timer, histVars >>
  /\ UNCHANGED otherVars

\* ProcError with the catch of lines 199-202 left out: the rejection of the
\* pre-buffer escapes the play handler
ProcErrorUncaught(r) ==
  /\ ~draining
  /\ promise[r] = "pending"
  /\ buffered[r] = 0
  /\ r \notin awaiting
  /\ \E which \in { "ytdlp", "ffmpeg" } :
       /\ IF which = "ytdlp" THEN ytdlp[r] = "running" ELSE ffmpeg[r] = "running"
       /\ ytdlp' = [ ytdlp EXCEPT ![r] = IF which = "ytdlp" THEN "error" ELSE @ ]
       /\ ffmpeg' = [ ffmpeg EXCEPT ![r] = IF which = "ffmpeg" THEN "error" ELSE @ ]
  /\ promise' = [ promise EXCEPT ![r] = "rejected" ]
  /\ pc' = [ pc EXCEPT ![r] = "crashed" ]
  /\ UNCHANGED << queues, immediates, draining, awaiting, voice, reply, buffer,
                  buffered, timer, histVars, otherVars >>

\* A child emits "error" while the wait is pending (lines 110-111): reject,
\* createBufferedStream rejects, and its caller's catch runs: that of the
\* play handler (lines 199-202) or that of playSong (lines 135-139).
\* Node emits "error" on a child that could not be spawned; this precedes
\* any output of the pipeline.
ProcError(r) ==
  /\ ~draining
  /\ promise[r] = "pending"
  /\ buffered[r] = 0
  /\ \E which \in { "ytdlp", "ffmpeg" }, playOk \in BOOLEAN :
       /\ IF which = "ytdlp" THEN ytdlp[r] = "running" ELSE ffmpeg[r] = "running"
       /\ LET base == << [ ytdlp EXCEPT ![r] = IF which = "ytdlp" THEN "error" ELSE @ ],
                         [ ffmpeg EXCEPT ![r] = IF which = "ffmpeg" THEN "error" ELSE @ ],
                         buffered,
                         [ promise EXCEPT ![r] = "rejected" ],
                         timer >>
          IN IF r \in awaiting
             THEN PlaySongCatch(r, base, playOk)
             ELSE /\ Spawn(base, NoSong)
                  /\ pc' = [ pc EXCEPT ![r] = "done" ]
                  /\ reply' = [ reply EXCEPT ![r] = "failed_resolve" ]
                  /\ UNCHANGED << queues, voice, awaiting, histVars >>
  /\ UNCHANGED << immediates, draining, buffer >>
  /\ UNCHANGED otherVars

\* Lines 204-225 taken whatever the map holds, as if the handler had looked
\* the session up before its awaits: a session that another request created
\* in the meantime is overwritten
PlayContinueStale(r, joinOk, playOk) ==
  IF ~joinOk
  THEN /\ pc' = [ pc EXCEPT ![r] = "crashed" ]
       /\ failures' = TRUE
       /\ UNCHANGED << queues, voice, reply, enqueued, started >>
  ELSE LET res == PlaySong(MapSet(queues, GuildId, NewServer(r)),
                           [ buffer EXCEPT ![r] = TRUE ], GuildId, playOk)
       IN /\ pc' = [ pc EXCEPT ![r] = "done" ]
          /\ enqueued' = Append(enqueued, r)
          /\ IF res.threw
             THEN /\ queues' = MapDelete(res.q, GuildId)
                  /\ voice' = voice
                  /\ reply' = [ reply EXCEPT ![r] = "failed_play" ]
                  /\ failures' = TRUE
                  /\ UNCHANGED started
             ELSE /\ queues' = res.q
                  /\ voice' = voice + 1
                  /\ reply' = [ reply EXCEPT ![r] = "now_playing" ]
                  /\ started' = Append(started, res.played)
                  /\ UNCHANGED failures

\* Lines 204-229, run when createBufferedStream has resolved and line 197 has
\* attached the buffer: create the session and play, or append to the queue.
\* joinOk / playOk: whether joinVoiceChannel and playSong return normally.
PlayContinue(r, joinOk, playOk) ==
  IF ~HasSession(queues, GuildId)
  THEN IF ~joinOk
       THEN \* line 207 throws outside any try: the handler's promise rejects
            /\ pc' = [ pc EXCEPT ![r] = "crashed" ]
            /\ failures' = TRUE
            /\ UNCHANGED << queues, voice, reply, enqueued, started >>
       ELSE LET res == PlaySong(MapSet(queues, GuildId, NewServer(r)),
                                [ buffer EXCEPT ![r] = TRUE ], GuildId, playOk)
            IN /\ pc' = [ pc EXCEPT ![r] = "done" ]
               /\ enqueued' = Append(enqueued, r)
               /\ IF res.threw
                  THEN \* lines 220-225: queues.delete, connection.destroy
                       /\ queues' = MapDelete(res.q, GuildId)
                       /\ voice' = voice
                       /\ reply' = [ reply EXCEPT ![r] = "failed_play" ]
                       /\ failures' = TRUE
                       /\ UNCHANGED started
                  ELSE /\ queues' = res.q
                       /\ voice' = IF res.destroyed THEN voice ELSE voice + 1
                       /\ reply' = [ reply EXCEPT ![r] = "now_playing" ]
                       /\ started' = IF res.played = NoSong THEN started
                                     ELSE Append(started, res.played)
                       /\ UNCHANGED failures
  ELSE \* lines 226-229
       /\ queues' = [ queues EXCEPT ![GuildId].songs = Push(@, r) ]
       /\ pc' = [ pc EXCEPT ![r] = "done" ]
       /\ reply' = [ reply EXCEPT ![r] = "added" ]
       /\ enqueued' = Append(enqueued, r)
       /\ UNCHANGED << voice, started, failures >>

\* playSong after its await (lines 134-158) for the awaited song r: attach
\* the buffer, play it, arm the listeners.
PlaySongResume(r, playOk) ==
  /\ awaiting' = awaiting \ {r}
  /\ IF playOk
     THEN /\ queues' = [ queues EXCEPT ![GuildId] = StartPlayback(@, r) ]
          /\ started' = Append(started, r)
          /\ UNCHANGED failures
     ELSE /\ failures' = TRUE
          /\ UNCHANGED << queues, started >>
  /\ UNCHANGED << voice, pc, reply, enqueued >>

\* The timer callback `check` (lines 104-107).  At the limit it resolves the
\* wait; if the wait was still pending its caller runs on at once: the play
\* handler (line 197) or playSong (line 134).
Check(r) ==
  /\ ~draining
  /\ timer[r]
  /\ IF Reached(buffered[r])
     THEN /\ timer' = [ timer EXCEPT ![r] = FALSE ]
          /\ IF promise[r] = "pending"
             THEN /\ promise' = [ promise EXCEPT ![r] = "resolved" ]
                  /\ buffer' = [ buffer EXCEPT ![r] = TRUE ]
                  /\ \E joinOk, playOk \in BOOLEAN :
                       IF r \in awaiting
                       THEN PlaySongResume(r, playOk)
                       ELSE PlayContinue(r, joinOk, playOk) /\ UNCHANGED awaiting
             ELSE UNCHANGED << promise, buffer, queues, voice, pc, reply, awaiting,
                               enqueued, started, failures >>
          /\ UNCHANGED rearmed
     ELSE \* setTimeout(check, 10): the timer stays armed
          /\ rearmed' = IF promise[r] = "pending" THEN rearmed ELSE rearmed \cup {r}
          /\ UNCHANGED << timer, promise, buffer, queues, voice, pc, reply,
                          awaiting, enqueued, started, failures >>
  /\ UNCHANGED << immediates, draining, ytdlp, ffmpeg, buffered, removed, attempts >>
  /\ UNCHANGED command

\* One queued setImmediate callback: playSong(guildId) (lines 149, 157).
RunImmediate ==
  /\ immediates # << >>
  /\ \E playOk \in BOOLEAN :
       LET res == PlaySong(queues, buffer, Head(immediates), playOk)
       IN /\ queues' = res.q
          /\ voice' = IF res.destroyed THEN voice - 1 ELSE voice
          /\ started' = IF res.played = NoSong THEN started
                        ELSE Append(started, res.played)
          /\ failures' = (failures \/ res.threw)
          /\ awaiting' = awaiting \cup ({res.awaits} \ {NoSong})
          /\ CreateBufferedStream(res.awaits)
  /\ immediates' = Tail(immediates)
  /\ draining' = (Tail(immediates) # << >>)
  /\ UNCHANGED << pc, reply, buffer, enqueued, removed, attempts >>
  /\ UNCHANGED otherVars

\* The player stops and emits: errors of the armed once("error") listeners and
\* idles of the armed once(Idle) listeners run the shared body and are disarmed.
Fire(g, errors, idles) ==
  LET server == queues[g]
      fired == errors + idles
      quiet == [ server EXCEPT !.status = "idle", !.resource = NoSong,
                               !.error = @ - errors, !.idle = @ - idles ]
  IN /\ queues' = [ queues EXCEPT ![g] = Listeners(quiet, fired) ]
     /\ ytdlp' = KillPlayProcess(ytdlp, server, fired)
     /\ ffmpeg' = KillPlayProcess(ffmpeg, server, fired)
     /\ removed' = removed \o Shifted(server.songs, fired)
     /\ immediates' = immediates \o Repeat(g, fired)

\* The resource ends (or the player runs dry): the player turns Idle and
\* every armed once(Idle) listener runs (lines 145-150).
PlayerIdle(g) ==
  /\ ~draining
  /\ HasSession(queues, g)
  /\ queues[g].status = "playing"
  /\ Fire(g, 0, queues[g].idle)
  /\ UNCHANGED << draining, awaiting, voice, pc, reply, buffer, buffered, promise,
                  timer, enqueued, started, attempts, failures >>
  /\ UNCHANGED otherVars

\* The resource's stream errors: the player emits "error", every armed
\* once("error") listener runs (lines 152-158), then the player turns Idle
\* and every armed once(Idle) listener runs as well.
PlayerError(g) ==
  /\ ~draining
  /\ HasSession(queues, g)
  /\ queues[g].status = "playing"
  /\ Fire(g, queues[g].error, queues[g].idle)
  /\ failures' = TRUE
  /\ UNCHANGED << draining, awaiting, voice, pc, reply, buffer, buffered, promise,
                  timer, enqueued, started, attempts >>
  /\ UNCHANGED otherVars

Next ==
  \/ \E r \in Requests : Interaction(r)
  \/ \E r \in Requests : FfmpegData(r)
  \/ \E r \in Requests : FfmpegEnd(r)
  \/ \E r \in Requests : ProcError(r)
  \/ \E r \in Requests : Check(r)
  \/ RunImmediate
  \/ PlayerIdle(GuildId)
  \/ PlayerError(GuildId)

Spec == Init /\ [][Next]_vars

\* Timers and immediates that are due do run.
FairSpec ==
  /\ Spec
  /\ \A r \in Requests : WF_vars(Check(r))
  /\ WF_vars(RunImmediate)

----------------------------------------------------------------------------
\* The skip and stop subcommands (lines 46-47, 232-235).
\*
\* Neither handler reads or writes the map, the player or a process, so the
\* behaviours of Spec are those of the program with these commands left
\* out of sight; SpecCommands issues them as well and records the last one.

\* "/music skip" (lines 232-234): the template literal reads song.title, but
\* `song` is declared inside the block of the play branch (line 179) and is
\* not in scope here: a ReferenceError is thrown before interaction.reply is
\* called, the handler's promise rejects (logged at line 240).
Skip(g) ==
  /\ ~draining
  /\ command' = [ sub |-> "skip", outcome |-> "threw" ]
  /\ UNCHANGED << queues, immediates, draining, awaiting, voice, pc, reply, buffer,
                  pipeVars, histVars, rearmed >>

\* "/music stop": no branch of the handler matches (line 235 is a comment);
\* the handler falls through to its end without a reply.
Stop(g) ==
  /\ ~draining
  /\ command' = [ sub |-> "stop", outcome |-> "returned" ]
  /\ UNCHANGED << queues, immediates, draining, awaiting, voice, pc, reply, buffer,
                  pipeVars, histVars, rearmed >>

NextCommands ==
  \/ Next
  \/ Skip(GuildId)
  \/ Stop(GuildId)

SpecCommands == Init /\ [][NextCommands]_vars

----------------------------------------------------------------------------
\* playSong on its own, for queue entries without a pre-fetched buffer.
\*
\* Under Spec every song is queued by the play handler, which attaches the
\* buffer at line 197 before it touches the queue: the fallback of line 133
\* (song.buffer || await createBufferedStream) and the catch branch of
\* lines 135-139 are then never entered (QueuedSongsAreBuffered below).
\* SpecLazy exercises them: it starts from a session with an idle player and
\* one scheduled playSong, whose songs 1..n each either carry a buffer or
\* not, and follows that playSong until it has returned.

InitLazy ==
  \E n \in Requests, withBuffer \in SUBSET Requests :
    /\ withBuffer \subseteq 1 .. n
    /\ queues = [ g \in {GuildId} |->
                    [ NewServer(1) EXCEPT !.songs = [ i \in 1 .. n |-> i ] ] ]
    /\ immediates = << GuildId >>
    /\ draining = FALSE
    /\ awaiting = {}
    /\ voice = 1
    /\ pc = [ r \in Requests |-> "done" ]
    /\ reply = [ r \in Requests |-> "none" ]
    /\ buffer = [ r \in Requests |-> r \in withBuffer ]
    /\ ytdlp = [ r \in Requests |-> IF r \in withBuffer THEN "running" ELSE "none" ]
    /\ ffmpeg = [ r \in Requests |-> IF r \in withBuffer THEN "running" ELSE "none" ]
    /\ buffered = [ r \in Requests |-> IF r \in withBuffer THEN BufferLimit ELSE 0 ]
    /\ promise = [ r \in Requests |-> IF r \in withBuffer THEN "resolved" ELSE "none" ]
    /\ timer = [ r \in Requests |-> FALSE ]
    /\ enqueued = [ i \in 1 .. n |-> i ]
    /\ started = << >>
    /\ removed = << >>
    /\ attempts = 0
    /\ failures = FALSE
    /\ command = NoCommand
  /\ rearmed = {}

NextLazy ==
  \/ RunImmediate
  \/ \E r \in Requests : FfmpegData(r)
  \/ \E r \in Requests : FfmpegEnd(r)
  \/ \E r \in Requests : ProcError(r)
  \/ \E r \in Requests : Check(r)

SpecLazy == InitLazy /\ [][NextLazy]_vars

----------------------------------------------------------------------------
\* Vocabulary of the properties

Range(seq) == { seq[i] : i \in DOMAIN seq }

IsPrefix(s, t) == Len(s) <= Len(t) /\ SubSeq(t, 1, Len(s)) = s

Session == HasSession(queues, GuildId)

\* the guild's queue; empty when the guild has no session
Songs == IF Session THEN queues[GuildId].songs ELSE << >>

Playing == Session /\ queues[GuildId].status = "playing"

\* a child of song s is running
Live(s) == ytdlp[s] = "running" \/ ffmpeg[s] = "running"

\* The step in which the play handler of r passes line 197 and runs on
Continues(r) == pc[r] = "buffering" /\ promise[r] = "pending" /\ promise'[r] = "resolved"

\* The step in which the player finishes the current song, by its natural end
\* or by an error, and the session stays
Finishes == Playing /\ HasSession(queues', GuildId) /\ queues'[GuildId].status = "idle"

----------------------------------------------------------------------------
\* C1: as long as no player error and no throw has happened, the songs are
\* started in exactly the order in which they entered the queue, and when a
\* song has been started every song enqueued ahead of it has left the queue.
C1_FifoOrder ==
  ~failures =>
    /\ IsPrefix(started, enqueued)
    /\ \A i \in 1 .. (Len(started) - 1) : enqueued[i] \notin Range(Songs)
    /\ Playing => queues[GuildId].resource = Songs[1]

\* three songs were queued together and played one after the other
C1_Witness ==
  /\ ~failures
  /\ Len(started) >= 2
  /\ started = SubSeq(enqueued, 1, Len(started))
  /\ Len(Songs) >= 2
  /\ Playing

\* C2: when the play handler of r runs on with no session for the guild, and
\* neither joinVoiceChannel nor playSong throws, the guild has a session
\* afterwards with a joined voice connection, a player playing r,
\* songs = [r], and the reply is "Now playing".
C2_NewSession ==
  [][ \A r \in Requests :
        ( Continues(r) /\ ~Session /\ pc'[r] = "done" /\ reply'[r] # "failed_play" )
        => /\ HasSession(queues', GuildId)
           /\ queues'[GuildId].songs = << r >>
           /\ queues'[GuildId].connection
           /\ voice' = voice + 1
           /\ queues'[GuildId].status = "playing"
           /\ queues'[GuildId].resource = r
           /\ started' = Append(started, r)
           /\ reply'[r] = "now_playing" ]_vars

\* a first request has created the session and its song plays
C2_Witness ==
  /\ \E r \in Requests : reply[r] = "now_playing" /\ Songs = << r >>
  /\ Playing
  /\ voice = 1

\* C3: when the play handler of r runs on while the guild has a session, the
\* song is appended at the tail and nothing else changes: the player, the
\* bound process pair, every process, the voice connection and the scheduled
\* advances stay as they are; the reply is "Added to the queue".
C3_Append ==
  [][ \A r \in Requests :
        ( Continues(r) /\ Session )
        => /\ queues' = [ queues EXCEPT ![GuildId].songs = Append(Songs, r) ]
           /\ reply'[r] = "added"
           /\ UNCHANGED << voice, immediates, ytdlp, ffmpeg, started, removed >> ]_vars

\* a song was appended behind two others while the head plays
C3_Witness ==
  /\ Len(Songs) >= 3
  /\ Playing
  /\ queues[GuildId].resource = Songs[1]
  /\ reply[Songs[Len(Songs)]] = "added"

\* C4: when the player finishes the current song, by completion or by error,
\* exactly the head leaves the queue and no song that was never started is
\* removed.
C4_ExactlyHeadRemoved ==
  [][ Finishes =>
        /\ queues'[GuildId].songs = Tail(Songs)
        /\ Range(removed') \subseteq Range(started) ]_vars

\* Under Spec every queued song has its buffer attached, and no playSong is
\* ever suspended at line 133.
QueuedSongsAreBuffered ==
  /\ \A i \in DOMAIN Songs : buffer[Songs[i]]
  /\ awaiting = {}
  /\ attempts = 0

\* The step in which the pipeline that playSong awaits for song r fails and
\* the catch branch runs
Catches(r) == awaiting = {r} /\ attempts' = attempts + 1

\* C5 (under SpecLazy): when the pipeline that playSong awaits for the head
\* fails, exactly the head is dropped; if songs remain the session and its
\* voice connection stay and playSong goes on with the next song: it plays it
\* if it has a buffer (unless player.play throws) and otherwise starts its
\* pipeline.
C5_FailedHeadDropped ==
  [][ \A r \in Requests :
        Catches(r) =>
          /\ r = Songs[1]
          /\ removed' = Append(removed, r)
          /\ IF Len(Songs) = 1
             THEN ~HasSession(queues', GuildId)
             ELSE /\ HasSession(queues', GuildId)
                  /\ queues'[GuildId].songs = Tail(Songs)
                  /\ queues'[GuildId].connection /\ voice' = voice
                  /\ IF buffer[Songs[2]]
                     THEN \/ /\ queues'[GuildId].status = "playing"
                             /\ queues'[GuildId].resource = Songs[2]
                             /\ started' = Append(started, Songs[2])
                          \/ failures' /\ ~failures
                     ELSE /\ Songs[2] \in awaiting'
                          /\ promise'[Songs[2]] = "pending"
                          /\ ytdlp'[Songs[2]] = "running"
                          /\ ffmpeg'[Songs[2]] = "running" ]_vars

\* a head was dropped after its pipeline failed and the next song plays
C5_Witness ==
  /\ attempts >= 1
  /\ removed # << >>
  /\ Playing
  /\ Songs # << >>
  /\ queues[GuildId].resource = Songs[1]
  /\ Songs[1] = removed[Len(removed)] + 1

\* C6 (under SpecLazy): every failed attempt of playSong consumes one song,
\* so there are never more failed attempts than songs, and when all n
\* pipelines have failed playSong has returned, the queue is empty, the
\* session is removed and the voice connection released.
C6_FailuresBounded ==
  /\ attempts <= Len(enqueued)
  /\ attempts = Len(removed)
  /\ Session => Len(Songs) = Len(enqueued) - attempts
  /\ attempts = Len(enqueued) =>
       /\ ~Session
       /\ voice = 0
       /\ awaiting = {}
       /\ immediates = << >>

\* every song of a queue of two or more failed to stream, no session left
C6_Witness ==
  /\ Len(enqueued) >= 2
  /\ attempts = Len(enqueued)
  /\ started = << >>
  /\ ~Session

\* C7 as stated: a queued song with a running process is the head of the queue.
C7_OnlyHeadLive == \A i \in DOMAIN Songs : Live(Songs[i]) => i = 1

\* C7 as amended: while the player plays, the song played and the process
\* pair bound as server.playProcess are those of the head of the queue; the
\* songs behind the head own the processes spawned for their pre-buffer.
C7_BoundPairIsHead ==
  Playing =>
    /\ Songs # << >>
    /\ queues[GuildId].resource = Songs[1]
    /\ queues[GuildId].playProcess = Songs[1]

\* the head plays while a song behind it has running pre-buffer processes
C7_Witness ==
  /\ Playing
  /\ Len(Songs) >= 2
  /\ Live(Songs[1])
  /\ Live(Songs[2])

\* C8: no song that was removed from the queue has a running process.
C8_RemovedAreKilled == \A s \in Range(removed) : ~Live(s)

C10_WaitSettles ==
  /\ [] ( \A r \in Requests : ffmpeg[r] = "exited" => promise[r] # "pending" )
  /\ [][ \A r \in Requests :
           ( timer[r] /\ ~timer'[r] ) => promise'[r] # "pending" ]_vars

\* C11: createBufferedStream has handed out its handle only if the byte
\* counter has reached the limit or the transcoder has ended, and every song
\* that was enqueued or started carries such a handle.
C11_NoEarlyHandle ==
  /\ \A r \in Requests :
       promise[r] = "resolved" =>
         ( buffered[r] >= BufferLimit \/ ffmpeg[r] = "exited" )
  /\ \A r \in Requests : buffer[r] => promise[r] = "resolved"
  /\ \A s \in Range(enqueued) \cup Range(started) :
       /\ buffer[s]
       /\ buffered[s] >= BufferLimit \/ ffmpeg[s] = "exited"

\* a song plays whose wait was over exactly at the limit, while the pipeline
\* of a later request is still below the limit
C11_Witness ==
  /\ Playing
  /\ buffered[queues[GuildId].resource] = BufferLimit
  /\ \E r \in Requests :
       /\ pc[r] = "buffering"
       /\ promise[r] = "pending"
       /\ buffered[r] > 0 /\ buffered[r] < BufferLimit
       /\ r \notin Range(enqueued)

\* The step in which a child of the pipeline of r emits "error"
ChildError(r) ==
  \/ ytdlp[r] # "error" /\ ytdlp'[r] = "error"
  \/ ffmpeg[r] # "error" /\ ffmpeg'[r] = "error"

\* C12: when a child emits "error" while the wait of createBufferedStream is
\* pending, the wait is rejected in that very step, no handle is attached to
\* the song, the song does not enter the queue and the play handler answers
\* that the query failed; a rejected pipeline never yields a handle later.
C12_ErrorRejects ==
  /\ [] ( \A r \in Requests :
            promise[r] = "rejected" => ( ~buffer[r] /\ r \notin Range(enqueued) ) )
  /\ [][ \A r \in Requests :
           ( promise[r] = "pending" /\ ChildError(r) )
           => /\ promise'[r] = "rejected"
              /\ ~buffer'[r]
              /\ r \notin Range(enqueued')
              /\ pc[r] = "buffering" => ( pc'[r] = "done" /\ reply'[r] = "failed_resolve" )
       ]_vars

\* the pipeline of a request failed during its wait while another song plays
C12_Witness ==
  /\ Playing
  /\ \E r \in Requests :
       /\ promise[r] = "rejected"
       /\ ytdlp[r] = "error" \/ ffmpeg[r] = "error"
       /\ reply[r] = "failed_resolve"
       /\ ~buffer[r]

\* The step in which a stop interaction is handled
Stops == command'.sub = "stop" /\ command' # command

\* The step in which a skip interaction is handled
Skips == command'.sub = "skip" /\ command' # command

\* C13 (under SpecCommands): when stop is handled while the guild has a
\* session, afterwards the session is gone, the voice connection is
\* released, and neither the head of the queue nor the bound process pair
\* has a running process.
C13_StopTearsDown ==
  [][ ( Stops /\ Session )
      => /\ ~HasSession(queues', GuildId)
         /\ voice' = 0
         /\ \A s \in Requests :
              ( s = queues[GuildId].playProcess \/ ( Songs # << >> /\ s = Songs[1] ) )
              => ( ytdlp'[s] # "running" /\ ffmpeg'[s] # "running" ) ]_vars

\* C14 (under SpecCommands): when skip is handled while a song plays, the
\* head leaves the queue and its processes are terminated, as on a natural
\* completion.
C14_SkipAdvances ==
  [][ ( Skips /\ Playing /\ Songs # << >> )
      => /\ HasSession(queues', GuildId)
         /\ queues'[GuildId].songs = Tail(Songs)
         /\ ytdlp'[Songs[1]] # "running"
         /\ ffmpeg'[Songs[1]] # "running" ]_vars

\* The step in which the first play request of the guild fails at joining
\* voice (the handler ends at line 207) or at starting playback (lines 220-225)
FirstPlayFails(r) ==
  /\ Continues(r)
  /\ ~Session
  /\ pc'[r] = "crashed" \/ reply'[r] = "failed_play"

\* C15: when the first play request of a guild fails at joining voice or at
\* starting playback, afterwards the guild has no session, no voice
\* connection is held, the process pair of the song's pre-buffer is not
\* running, and the request was answered.
C15_FailedStartReleases ==
  [][ \A r \in Requests :
        FirstPlayFails(r)
        => /\ ~HasSession(queues', GuildId)
           /\ voice' = 0
           /\ ytdlp'[r] # "running" /\ ffmpeg'[r] # "running"
           /\ reply'[r] # "none" ]_vars

\* The step in which the pipeline of the play request r fails to start
PipelineFails(r) == pc[r] = "buffering" /\ promise[r] = "pending" /\ ChildError(r)

\* C16: when the pipeline of a play request fails to start while the guild
\* has no session, the handler ends normally with the answer that the query
\* failed and the guild still has no session and no voice connection; when a
\* later play request then runs on with no session (join and play returning
\* normally), it creates a session with a fresh player, songs = [its song],
\* and plays that song.
C16_FailedStartThenFresh ==
  /\ [][ \A r \in Requests :
           ( PipelineFails(r) /\ ~Session )
           => /\ pc'[r] = "done"
              /\ reply'[r] = "failed_resolve"
              /\ ~HasSession(queues', GuildId)
              /\ voice' = 0
              /\ r \notin Range(enqueued') ]_vars
  /\ [][ \A r, later \in Requests :
           ( /\ pc[r] = "done" /\ promise[r] = "rejected"
             /\ Continues(later) /\ ~Session
             /\ pc'[later] = "done" /\ reply'[later] # "failed_play" )
           => /\ HasSession(queues', GuildId)
              /\ queues'[GuildId] = StartPlayback(NewServer(later), later)
              /\ voice' = 1
              /\ reply'[later] = "now_playing"
              /\ started' = Append(started, later) ]_vars

\* the first request's pipeline failed with nothing queued; the next request
\* has created the session and its song plays
C16_Witness ==
  /\ enqueued = << 2 >>
  /\ promise[1] = "rejected" /\ reply[1] = "failed_resolve"
  /\ Songs = << 2 >>
  /\ Playing /\ queues[GuildId].resource = 2
  /\ reply[2] = "now_playing"
  /\ voice = 1

\* C17: at most one advance of the guild (a playSong queued with setImmediate
\* or suspended at its await) is pending at any time.
C17_OneAdvancePending == Len(immediates) + Cardinality(awaiting) <= 1

\* C18: the player carries at most one armed Idle listener and at most one
\* armed error listener, and only while the song they were armed for plays.
C18_ListenersOfHeadOnly ==
  Session =>
    /\ queues[GuildId].idle <= 1
    /\ queues[GuildId].error <= 1
    /\ ~Playing => ( queues[GuildId].idle = 0 /\ queues[GuildId].error = 0 )

\* the number of times song r entered a queue
TimesEnqueued(r) == Cardinality({ i \in DOMAIN enqueued : enqueued[i] = r })

\* C19: however the waits of the play requests interleave, the guild never
\* holds more than one voice connection, and holds one exactly while it has
\* a session; a request that runs on while there is no session creates it
\* and joins voice, a request that runs on while there is one appends to its
\* queue and joins nothing; every song whose request was answered "Now
\* playing" or "Added" entered the queue exactly once and is in the queue
\* until a shift removes it.
C19_OneSessionNoLoss ==
  /\ [] ( /\ voice <= 1
          /\ Session <=> voice = 1
          /\ \A r \in Requests :
               reply[r] \in { "now_playing", "added" }
               => /\ TimesEnqueued(r) = 1
                  /\ r \in Range(Songs) \/ r \in Range(removed) )
  /\ [][ \A r \in Requests :
           ( Continues(r) /\ pc'[r] = "done" /\ reply'[r] # "failed_play" )
           => IF Session
              THEN /\ reply'[r] = "added"
                   /\ voice' = voice
                   /\ queues'[GuildId].songs = Append(Songs, r)
              ELSE /\ reply'[r] = "now_playing"
                   /\ voice' = voice + 1
                   /\ queues'[GuildId].songs = << r >> ]_vars

\* three requests waited at the same time with no session; the last one
\* issued finished first and created the session, the others were appended
C19_Witness ==
  /\ enqueued = << 3, 1, 2 >>
  /\ Songs = << 3, 1, 2 >>
  /\ reply = << "added", "added", "now_playing" >>
  /\ voice = 1
  /\ Playing /\ queues[GuildId].resource = 3

\* C20: no check of a pipeline re-arms its timer once the wait of that
\* pipeline has been settled.
C20_PollStops == rearmed = {}

====
